---- MODULE Spec2Model ----
(***************************************************************************)
(* Portal AI Backstage (src/backend/main.py).                              *)
(*                                                                         *)
(* Two specifications over one set of variables:                           *)
(*   SpecStore   - the in-memory ArtifactStore behind POST /artifact,      *)
(*                 GET /artifacts and GET /artifact/{id}.  ArtifactStore.add*)
(*                 is modelled statement by statement, one request handler *)
(*                 per process, so every interleaving of the statements of *)
(*                 concurrent adds is a behaviour.  A handler that is      *)
(*                 abandoned half-way is a process that takes no further   *)
(*                 step (no fairness is assumed).                          *)
(*   SpecAnalyze - POST /analyze: synthetic_place_label and build_threads. *)
(*                                                                         *)
(* Python dicts are heap objects: a handler's payload is a reference, and  *)
(* the store keeps the reference, not a copy.  Dict values are strings.    *)
(* Coordinates are integers in thousandths of a degree.                    *)
(***************************************************************************)
EXTENDS Integers, Sequences, FiniteSets, TLC

VARIABLES heap, items, issued, now, proc, log, http, analysis

vars == <<heap, items, issued, now, proc, log, http, analysis>>

storeVars == <<heap, items, issued, now, proc, log, http>>

-----------------------------------------------------------------------------
(* Bounds *)

MaxReq == 2

MaxAdds == 2

MaxClock == 1

MaxNoteLen == 82

-----------------------------------------------------------------------------
(* Python dict primitives *)

\* faulty variant of DictSet: an existing key keeps its value (setdefault)
DictSet_keep(d, k, v) == [f \in (DOMAIN d) \cup {k} |-> IF f \in DOMAIN d THEN d[f] ELSE v]

\* d[k] = v on a plain dict of fields: adds the key or overwrites its value
DictSet(d, k, v) == [f \in (DOMAIN d) \cup {k} |-> IF f = k THEN v ELSE d[f]]

Keys(its) == {its[i].key : i \in 1..Len(its)}

IndexOf(its, k) == CHOOSE i \in 1..Len(its) : its[i].key = k

\* self._items[k] = ref : an insertion-ordered dict; a new key goes to the
\* end, an existing key keeps its position and gets the new value
ItemsSet(its, k, ref) ==
    IF k \in Keys(its)
    THEN [its EXCEPT ![IndexOf(its, k)] = [key |-> k, ref |-> ref]]
    ELSE Append(its, [key |-> k, ref |-> ref])

-----------------------------------------------------------------------------
(* Environment: uuid4, the clock, request bodies *)

UuidSpace == 1..MaxAdds

\* faulty variant of uuid4: a value may be returned twice
uuid4_repeat(used) == UuidSpace

\* the values uuid.uuid4() can return, given those it returned before
uuid4(used) == UuidSpace \ used

\* str(uuid)
Str(u) == "uuid-" \o ToString(u)

\* datetime.isoformat() + "Z"
IsoZ(t) == "T" \o ToString(t) \o "Z"

\* JSON object bodies a client may POST to /artifact
Bodies ==
    { [x |-> "1"],
      [x |-> "2", id |-> "uuid-1", created_at |-> "T0Z"] }

\* ids a client may ask for
AskIds == {Str(1), Str(2), "nonexistent"}

Procs == 1..MaxReq

Idle == [pc |-> "idle"]

\* faulty variant of fresh_ref: every request body lands in one shared dict
fresh_ref_shared(h) == 1

\* the body parameter of save_artifact is a dict object of its own
fresh_ref(h) == Len(h) + 1

HeapPut(h, r, d) == IF r = Len(h) + 1 THEN Append(h, d) ELSE [h EXCEPT ![r] = d]

-----------------------------------------------------------------------------
(* ArtifactStore *)

\* faulty variant of list: newest first
list_newest_first(its, h) == [i \in 1..Len(its) |-> h[its[Len(its) + 1 - i].ref]]

\* ArtifactStore.list
list(its, h) == [i \in 1..Len(its) |-> h[its[i].ref]]

\* faulty variant of get: a default value instead of KeyError
get_no_raise(its, h, artifact_id) ==
    IF artifact_id \notin Keys(its)
    THEN [raised |-> "", value |-> [x |-> "None"]]
    ELSE [raised |-> "", value |-> h[its[IndexOf(its, artifact_id)].ref]]

\* ArtifactStore.get
get(its, h, artifact_id) ==
    IF artifact_id \notin Keys(its)
    THEN [raised |-> "KeyError"]
    ELSE [raised |-> "", value |-> h[its[IndexOf(its, artifact_id)].ref]]

InitStore ==
    /\ heap = <<>>
    /\ items = <<>>
    /\ issued = {}
    /\ now = 0
    /\ proc = [p \in Procs |-> Idle]
    /\ log = <<>>
    /\ http = [route |-> "none"]
    /\ analysis = [route |-> "none"]

\* the wall clock advances
Tick ==
    /\ now < MaxClock
    /\ now' = now + 1
    /\ UNCHANGED <<heap, items, issued, proc, log, http, analysis>>

\* POST /artifact arrives: the JSON body is parsed into a new dict and
\* save_artifact calls store.add(payload)
save_artifact(p, body) ==
    /\ proc[p].pc = "idle"
    /\ Len(heap) < MaxAdds
    /\ LET r == fresh_ref(heap) IN
        /\ heap' = HeapPut(heap, r, body)
        /\ proc' = [proc EXCEPT ![p] = [pc |-> "l29", sent |-> body, payload |-> r]]
    /\ UNCHANGED <<items, issued, now, log, http, analysis>>

\* faulty variant of add_l29: the entry is stored before its fields are set
add_l29_insert_first(p) ==
    /\ proc[p].pc = "l29"
    /\ \E u \in uuid4(issued) :
        /\ issued' = issued \cup {u}
        /\ items' = ItemsSet(items, Str(u), proc[p].payload)
        /\ proc' = [proc EXCEPT ![p] =
                      [pc |-> "l30", sent |-> proc[p].sent,
                       payload |-> proc[p].payload, artifact_id |-> Str(u)]]
    /\ UNCHANGED <<heap, now, log, http, analysis>>

\* artifact_id = str(uuid.uuid4())
add_l29(p) ==
    /\ proc[p].pc = "l29"
    /\ \E u \in uuid4(issued) :
        /\ issued' = issued \cup {u}
        /\ proc' = [proc EXCEPT ![p] =
                      [pc |-> "l30", sent |-> proc[p].sent,
                       payload |-> proc[p].payload, artifact_id |-> Str(u)]]
    /\ UNCHANGED <<heap, items, now, log, http, analysis>>

\* payload["id"] = artifact_id
add_l30(p) ==
    /\ proc[p].pc = "l30"
    /\ heap' = [heap EXCEPT ![proc[p].payload] = DictSet(@, "id", proc[p].artifact_id)]
    /\ proc' = [proc EXCEPT ![p].pc = "l31"]
    /\ UNCHANGED <<items, issued, now, log, http, analysis>>

\* payload["created_at"] = datetime.utcnow().isoformat() + "Z"
add_l31(p) ==
    /\ proc[p].pc = "l31"
    /\ heap' = [heap EXCEPT ![proc[p].payload] = DictSet(@, "created_at", IsoZ(now))]
    /\ proc' = [proc EXCEPT ![p] =
                  [pc |-> "l32", sent |-> proc[p].sent, payload |-> proc[p].payload,
                   artifact_id |-> proc[p].artifact_id, utcnow |-> now]]
    /\ UNCHANGED <<items, issued, now, log, http, analysis>>

\* self._items[artifact_id] = payload; return payload; and save_artifact
\* returns the record as the response body: log is the sequence of the
\* responses to POST /artifact, each with the request that it answers
add_l32(p) ==
    /\ proc[p].pc = "l32"
    /\ items' = ItemsSet(items, proc[p].artifact_id, proc[p].payload)
    /\ log' = Append(log, [sent |-> proc[p].sent,
                           artifact_id |-> proc[p].artifact_id,
                           utcnow |-> proc[p].utcnow,
                           saved |-> heap[proc[p].payload]])
    /\ http' = [route |-> "POST /artifact", status |-> 200,
                body |-> heap[proc[p].payload]]
    /\ proc' = [proc EXCEPT ![p] = Idle]
    /\ UNCHANGED <<heap, issued, now, analysis>>

\* GET /artifacts
list_artifacts ==
    /\ http' = [route |-> "GET /artifacts", status |-> 200,
                body |-> [items |-> list(items, heap)]]
    /\ UNCHANGED <<heap, items, issued, now, proc, log, analysis>>

\* GET /artifact/{artifact_id}
get_artifact(artifact_id) ==
    /\ LET item == get(items, heap, artifact_id) IN
         http' = IF item.raised = "KeyError"
                 THEN [route |-> "GET /artifact", arg |-> artifact_id,
                       status |-> 404, body |-> [detail |-> "Artifact not found"]]
                 ELSE [route |-> "GET /artifact", arg |-> artifact_id,
                       status |-> 200, body |-> item.value]
    /\ UNCHANGED <<heap, items, issued, now, proc, log, analysis>>

NextStore ==
    \/ Tick
    \/ \E p \in Procs, body \in Bodies : save_artifact(p, body)
    \/ \E p \in Procs : add_l29(p)
    \/ \E p \in Procs : add_l30(p)
    \/ \E p \in Procs : add_l31(p)
    \/ \E p \in Procs : add_l32(p)
    \/ list_artifacts
    \/ \E a \in AskIds : get_artifact(a)

SpecStore == InitStore /\ [][NextStore]_vars

-----------------------------------------------------------------------------
(* POST /analyze *)

abs(v) == IF v < 0 THEN -v ELSE v

Pad3(n) == IF n < 10 THEN "00" \o ToString(n)
           ELSE IF n < 100 THEN "0" \o ToString(n) ELSE ToString(n)

\* f"{v:.3f}" of a value given in thousandths
Fmt3(v) == (IF v < 0 THEN "-" ELSE "") \o ToString(abs(v) \div 1000)
             \o "." \o Pad3(abs(v) % 1000)

\* the label is its sentence template and the two formatted coordinates
Label(template, lat, lon) == [template |-> template, lat |-> Fmt3(lat), lon |-> Fmt3(lon)]

\* faulty variant of synthetic_place_label: coastal tested before the band
synthetic_place_label_coastal_first(lat, lon) ==
    LET coastal    == abs(lon) < 20000 \/ abs(lat) < 15000
        river_band == 36000 < lat /\ lat < 41000 /\ -10000 < lon /\ lon < -4000
    IN  IF coastal THEN Label("Coastal fringe around", lat, lon)
        ELSE IF river_band THEN Label("Riverside bend near", lat, lon)
        ELSE Label("Inland ridge near", lat, lon)

synthetic_place_label(lat, lon) ==
    LET coastal    == abs(lon) < 20000 \/ abs(lat) < 15000
        river_band == 36000 < lat /\ lat < 41000 /\ -10000 < lon /\ lon < -4000
    IN  IF river_band THEN Label("Riverside bend near", lat, lon)
        ELSE IF coastal THEN Label("Coastal fringe around", lat, lon)
        ELSE Label("Inland ridge near", lat, lon)

base_questions ==
    << "Who else keeps records of this place?",
       "What photos or maps could confirm details?",
       "Which community voices are missing here?" >>

Thread(title, summary, support_level, suggested_sources) ==
    [title |-> title, summary |-> summary, support_level |-> support_level,
     suggested_sources |-> suggested_sources, verify_questions |-> base_questions]

RiverThreads ==
    << Thread("River trade and tides",
              <<"Merchant rafts once drifted here; floods rewrote paths and stories.">>,
              "supported", <<"Port records", "Oral histories", "Tide charts">>),
       Thread("Bridge rumors",
              <<"Locals speak of a temporary bridge that appeared only at low tide.">>,
              "likely", <<"Newspaper clippings", "Municipal minutes">>) >>

CoastalThreads ==
    << Thread("Salt wind archive",
              <<"Fisher cooperatives indexed storms with shells strung above doorways.">>,
              "likely", <<"Family collections", "Weather logs">>),
       Thread("Ship graffiti",
              <<"Hull markings carved by dockworkers doubled as secret navigation rhymes.">>,
              "speculative", <<"Harbor walls", "Retired sailors">>) >>

InlandThreads ==
    << Thread("Dry season crossings",
              <<"Caravans cut through here when the marshes shrank; stones still mark the line.">>,
              "supported", <<"Trail maps", "Satellite imagery">>),
       Thread("Songs against dust",
              <<"Field choirs sang call-and-response to time irrigation releases.">>,
              "likely", <<"Local elders", "Radio archives">>) >>

\* faulty variant of Slice: one character too many
Slice_through(s, n) == [i \in 1..(IF Len(s) < n + 1 THEN Len(s) ELSE n + 1) |-> s[i]]

\* s[:n] for n >= 0
Slice(s, n) == [i \in 1..(IF Len(s) < n THEN Len(s) ELSE n) |-> s[i]]

\* a summary is a sequence of text pieces: the pieces of the template around
\* the characters of the note
OverlayThread(note) ==
    Thread("Overlay of legends",
           <<"A traveler wrote about this spot in a note: '">>
             \o Slice(note, 80)
             \o <<"...' and added their own myth.">>,
           "speculative", <<"Personal journals", "Community forums">>)

\* faulty variant of build_threads: the overlay thread comes first
build_threads_overlay_first(lat, lon, note) ==
    LET is_coastal == abs(lon) < 20000 \/ abs(lat) < 15000
        river_band == 36000 < lat /\ lat < 41000 /\ -10000 < lon /\ lon < -4000
    IN  <<OverlayThread(note)>> \o
          (IF river_band THEN RiverThreads
           ELSE IF is_coastal THEN CoastalThreads
           ELSE InlandThreads)

\* faulty variant of build_threads: coastal tested before the band
build_threads_coastal_first(lat, lon, note) ==
    LET is_coastal == abs(lon) < 20000 \/ abs(lat) < 15000
        river_band == 36000 < lat /\ lat < 41000 /\ -10000 < lon /\ lon < -4000
    IN  (IF is_coastal THEN CoastalThreads
         ELSE IF river_band THEN RiverThreads
         ELSE InlandThreads) \o <<OverlayThread(note)>>

build_threads(lat, lon, note) ==
    LET is_coastal == abs(lon) < 20000 \/ abs(lat) < 15000
        river_band == 36000 < lat /\ lat < 41000 /\ -10000 < lon /\ lon < -4000
    IN  (IF river_band THEN RiverThreads
         ELSE IF is_coastal THEN CoastalThreads
         ELSE InlandThreads) \o <<OverlayThread(note)>>

\* latitudes and longitudes a client may send, in thousandths of a degree
Lats == {-90000, -15000, -14999, 0, 14999, 15000, 36000, 36001, 38700, 40999, 41000, 50000}

Lons == {-100000, -20000, -19999, -10000, -9999, -9100, -4001, -4000, 5000, 19999, 20000, 100000}

NoteChars == <<"a", "b", "'">>

Note(n, k) == [i \in 1..n |-> NoteChars[((i + k) % 3) + 1]]

\* notes a client may send: every length up to MaxNoteLen
Notes == {Note(n, k) : n \in 0..MaxNoteLen, k \in 0..1}

\* a POST /analyze request has arrived with its form fields
InitAnalyze ==
    /\ heap = <<>>
    /\ items = <<>>
    /\ issued = {}
    /\ now = 0
    /\ proc = [p \in Procs |-> Idle]
    /\ log = <<>>
    /\ http = [route |-> "none"]
    /\ \E lat \in Lats, lon \in Lons, note \in Notes :
          analysis = [route |-> "POST /analyze", status |-> 0,
                      lat |-> lat, lon |-> lon, note |-> note]

\* the handler; the response fields that depend on nothing but constants and
\* the two-decimal prompt are left out
analyze ==
    /\ analysis.status = 0
    /\ analysis' =
          [route |-> "POST /analyze", status |-> 200,
           lat |-> analysis.lat, lon |-> analysis.lon, note |-> analysis.note,
           body |-> [place_label |-> synthetic_place_label(analysis.lat, analysis.lon),
                     threads |-> build_threads(analysis.lat, analysis.lon, analysis.note)]]
    /\ UNCHANGED storeVars

NextAnalyze == analyze

SpecAnalyze == InitAnalyze /\ [][NextAnalyze]_vars

-----------------------------------------------------------------------------
(* Properties of the store, checked under SpecStore *)

Quiescent == \A p \in Procs : proc[p].pc = "idle"

Has(d, f) == f \in DOMAIN d

\* C1: the ids returned by the adds, however their statements interleave, are
\* pairwise distinct, and once all of them have returned list() holds exactly
\* one item per add: as many items as adds, and each returned id exactly once.
C1_DistinctIdsNoLostAdd ==
    /\ \A i \in 1..Len(log) : Has(log[i].saved, "id")
    /\ \A i, j \in 1..Len(log) : i # j => log[i].saved.id # log[j].saved.id
    /\ Quiescent =>
          LET L == list(items, heap) IN
            /\ Len(L) = Len(log)
            /\ \A i \in 1..Len(log) :
                  Cardinality({k \in 1..Len(L) :
                                 Has(L[k], "id") /\ L[k].id = log[i].saved.id}) = 1

\* two adds that overlapped in time (the one that returned first read the
\* clock after the other) have both returned
C1_Witness ==
    /\ Quiescent
    /\ Len(log) >= 2
    /\ log[1].utcnow > log[2].utcnow
    /\ Len(list(items, heap)) = Len(log)

\* C2: get(id) keeps returning the id and the created_at that the add
\* returned, whatever adds, lists and gets happen afterwards.
C2_IdCreatedAtNeverChange ==
    \A i \in 1..Len(log) :
       /\ Has(log[i].saved, "id") /\ Has(log[i].saved, "created_at")
       /\ LET g == get(items, heap, log[i].saved.id) IN
            /\ g.raised = ""
            /\ Has(g.value, "id") /\ Has(g.value, "created_at")
            /\ g.value.id = log[i].saved.id
            /\ g.value.created_at = log[i].saved.created_at

\* a later add with another timestamp has completed and the first artifact
\* has been fetched again
C2_Witness ==
    /\ Len(log) >= 2
    /\ log[2].saved.created_at # log[1].saved.created_at
    /\ http.route = "GET /artifact"
    /\ http.status = 200
    /\ http.arg = log[1].saved.id
    /\ http.body.created_at = log[1].saved.created_at

\* C3: add(r) followed by get(returned id) gives r's own fields unchanged,
\* plus id = the generated id and created_at = the timestamp taken by the
\* add, also where r came with an id or a created_at of its own.
C3_AddThenGet ==
    \A i \in 1..Len(log) :
       LET e == log[i]
           g == get(items, heap, e.artifact_id)
       IN  /\ Has(e.saved, "id") /\ e.saved.id = e.artifact_id
           /\ g.raised = ""
           /\ DOMAIN g.value = (DOMAIN e.sent) \cup {"id", "created_at"}
           /\ \A f \in (DOMAIN e.sent) \ {"id", "created_at"} : g.value[f] = e.sent[f]
           /\ g.value.id = e.artifact_id
           /\ g.value.created_at = IsoZ(e.utcnow)

\* a record posted with its own id and created_at has been stored and
\* fetched, and carries the generated values instead
C3_Witness ==
    /\ http.route = "GET /artifact"
    /\ http.status = 200
    /\ \E i \in 1..Len(log) :
          /\ log[i].artifact_id = http.arg
          /\ Has(log[i].sent, "id") /\ Has(log[i].sent, "created_at")
          /\ http.body.id # log[i].sent.id
          /\ http.body.created_at # log[i].sent.created_at
          /\ http.body.id = log[i].artifact_id

\* C4: list() is the artifacts in the order their adds inserted them, and a
\* step of the program leaves the listed sequence as it is or appends to it.
C4_ListInsertionOrder ==
    /\ [](LET L == list(items, heap) IN
            /\ Len(L) = Len(log)
            /\ \A i \in 1..Len(L) : L[i] = log[i].saved)
    /\ [][LET L  == list(items, heap)
              L2 == list(items', heap')
          IN  /\ Len(L2) >= Len(L)
              /\ \A i \in 1..Len(L) : L2[i] = L[i]
              /\ (http'.route = "GET /artifacts" /\ http' # http)
                    => http'.body.items = [i \in 1..Len(log) |-> log[i].saved]]_vars

\* two artifacts whose ids are not in increasing order have been listed
C4_Witness ==
    /\ Len(log) >= 2
    /\ log[1].artifact_id = Str(2)
    /\ log[2].artifact_id = Str(1)
    /\ http.route = "GET /artifacts"
    /\ Len(http.body.items) = 2
    /\ http.body.items[1].id = Str(2)

Stored(a) == \E i \in 1..Len(items) : items[i].key = a

\* C5: get of an id that is not a key raises KeyError, GET /artifact/{id}
\* answers 404 "Artifact not found" and the store is left as it was; get of a
\* key answers 200 with the artifact stored under it.
C5_GetNotFound ==
    /\ [](\A a \in AskIds : Stored(a) <=> get(items, heap, a).raised # "KeyError")
    /\ [][\A a \in AskIds : get_artifact(a) =>
             IF Stored(a)
             THEN /\ http'.status = 200
                  /\ \E i \in 1..Len(items) :
                        items[i].key = a /\ http'.body = heap[items[i].ref]
             ELSE /\ http'.status = 404
                  /\ http'.body = [detail |-> "Artifact not found"]
                  /\ items' = items /\ heap' = heap]_vars

\* an id that some request was given but that is not stored yet has been
\* asked for and refused
C5_Witness ==
    /\ http.route = "GET /artifact"
    /\ http.status = 404
    /\ \E p \in Procs : proc[p].pc = "l32" /\ proc[p].artifact_id = http.arg
    /\ Len(items) = 1

\* C10: every entry reachable through list() or get() has an id equal to the
\* key it is stored under and a created_at, in every state, those between
\* the statements of unfinished adds included.
C10_InsertAtomic ==
    \A i \in 1..Len(items) :
       LET d == heap[items[i].ref] IN
         /\ Has(d, "id") /\ d.id = items[i].key
         /\ Has(d, "created_at")
         /\ get(items, heap, items[i].key).value = d
         /\ list(items, heap)[i] = d

\* one artifact is stored while another add has written its id but neither
\* its created_at nor its store entry
C10_Witness ==
    /\ Len(items) = 1
    /\ \E p \in Procs :
          /\ proc[p].pc = "l31"
          /\ Has(heap[proc[p].payload], "id")
          /\ ~Stored(heap[proc[p].payload].id)

-----------------------------------------------------------------------------
(* Properties of POST /analyze, checked under SpecAnalyze *)

Answered == analysis.route = "POST /analyze" /\ analysis.status = 200

InRiverBand(lat, lon) == lat > 36000 /\ lat < 41000 /\ lon > -10000 /\ lon < -4000

NearCoast(lat, lon) == (lon > -20000 /\ lon < 20000) \/ (lat > -15000 /\ lat < 15000)

\* C6: the label is the river one exactly inside the open band 36 < lat < 41,
\* -10 < lon < -4; outside it, it is the coastal one exactly when |lon| < 20
\* or |lat| < 15; and the inland one in every other case.
C6_ClassifierPrecedence ==
    Answered =>
      LET t == analysis.body.place_label.template
          lat == analysis.lat
          lon == analysis.lon
      IN  /\ t \in {"Riverside bend near", "Coastal fringe around", "Inland ridge near"}
          /\ (t = "Riverside bend near") <=> InRiverBand(lat, lon)
          /\ (t = "Coastal fringe around") <=> (~InRiverBand(lat, lon) /\ NearCoast(lat, lon))
          /\ (t = "Inland ridge near") <=> (~InRiverBand(lat, lon) /\ ~NearCoast(lat, lon))

\* (38.7, -9.1) lies in the band and near the coast, and is labelled river
C6_Witness ==
    /\ Answered
    /\ analysis.lat = 38700 /\ analysis.lon = -9100
    /\ NearCoast(analysis.lat, analysis.lon)
    /\ analysis.body.place_label =
          [template |-> "Riverside bend near", lat |-> "38.700", lon |-> "-9.100"]

\* C7: the first two threads are the pair of the category that the label of
\* the same response names.
C7_ThreadsAgreeWithLabel ==
    Answered =>
      LET t  == analysis.body.place_label.template
          th == analysis.body.threads
      IN  /\ Len(th) >= 2
          /\ (t = "Riverside bend near") <=>
                (th[1].title = "River trade and tides" /\ th[2].title = "Bridge rumors")
          /\ (t = "Coastal fringe around") <=>
                (th[1].title = "Salt wind archive" /\ th[2].title = "Ship graffiti")
          /\ (t = "Inland ridge near") <=>
                (th[1].title = "Dry season crossings" /\ th[2].title = "Songs against dust")

\* a point on the edge of the band (lat = 36.0 exactly): both functions put
\* it outside the band and call it coastal
C7_Witness ==
    /\ Answered
    /\ analysis.lat = 36000 /\ analysis.lon = -9100
    /\ analysis.body.place_label.template = "Coastal fringe around"
    /\ analysis.body.threads[1].title = "Salt wind archive"

\* C8: three threads: thread 1 and thread 2 of the category's row of the
\* table, then "Overlay of legends"; every support_level is of the enum and
\* every thread carries the same three verify_questions.
C8_ThreeThreadsFixedOrder ==
    Answered =>
      LET th == analysis.body.threads IN
        /\ Len(th) = 3
        /\ << th[1].title, th[1].support_level, th[2].title, th[2].support_level >> \in
              { << "River trade and tides", "supported", "Bridge rumors", "likely" >>,
                << "Salt wind archive", "likely", "Ship graffiti", "speculative" >>,
                << "Dry season crossings", "supported", "Songs against dust", "likely" >> }
        /\ th[3].title = "Overlay of legends"
        /\ \A i \in 1..3 : th[i].support_level \in {"supported", "likely", "speculative"}
        /\ \A i \in 1..3 : Len(th[i].verify_questions) = 3
                             /\ th[i].verify_questions = th[1].verify_questions

\* an inland point with a note longer than the cut
C8_Witness ==
    /\ Answered
    /\ analysis.lat = 50000 /\ analysis.lon = 100000
    /\ Len(analysis.note) > 80
    /\ Len(analysis.body.threads) = 3
    /\ analysis.body.threads[1].title = "Dry season crossings"
    /\ analysis.body.threads[3].title = "Overlay of legends"

\* C9: between the two pieces of the template the overlay summary holds the
\* first min(len(note), 80) characters of the note and nothing else.
C9_OverlayEmbedsNotePrefix ==
    Answered =>
      LET th   == analysis.body.threads
          s    == th[Len(th)].summary
          note == analysis.note
          m    == IF Len(note) <= 80 THEN Len(note) ELSE 80
      IN  /\ Len(s) = m + 2
          /\ s[1] = "A traveler wrote about this spot in a note: '"
          /\ s[m + 2] = "...' and added their own myth."
          /\ \A i \in 1..m : s[i + 1] = note[i]

\* a note of 81 characters has been cut to 80
C9_Witness ==
    /\ Answered
    /\ Len(analysis.note) = 81
    /\ Len(analysis.body.threads[3].summary) = 82
    /\ analysis.body.threads[3].summary[81] = analysis.note[80]

====
